---- MODULE Spec2Model ----
(***************************************************************************)
(* Seat booking for webinars: the BookSeat use case (book-seat.ts), the    *)
(* repositories and the mailer it talks to, and the Webinar predicates it  *)
(* evaluates.  One booking attempt is a chain of steps separated by the    *)
(* await points of BookSeat.execute.                                       *)
(***************************************************************************)
EXTENDS Integers, Sequences, FiniteSets, TLC

(***************************************************************************)
(* Bounds of the model.                                                    *)
(***************************************************************************)
MaxCalls == 2          \* call slots (execute invocations that can exist at once)
MaxBookings == 2       \* execute calls started in one behaviour
MaxEnvSteps == 2       \* webinars created + users added + clock ticks (ms) in one behaviour

(***************************************************************************)
(* Program constants.                                                      *)
(***************************************************************************)
DayMs == 24 * 60 * 60 * 1000
MinLeadDays == 3
MaxSeats == 1000
MinSeats == 1

Calls == 1..MaxCalls

(***************************************************************************)
(* Optional values (undefined / null) are sequences of length at most 1.   *)
(***************************************************************************)
None == <<>>
Some(v) == <<v>>

(***************************************************************************)
(* Input domains.                                                          *)
(***************************************************************************)
WebinarIds == {"w1", "w2"}
Requesters ==
  { [id |-> "u1", email |-> Some("u1@x")],
    [id |-> "u2", email |-> None] }
Organizers ==
  { [id |-> "o1", email |-> e] : e \in {None, Some(""), Some("o1@x")} }
  \cup { [id |-> "o2", email |-> Some("o2@x")] }
SeatCounts == {0, 1, 1000, 1001}
WebinarPool ==
  { [id |-> "w1", organizerId |-> "o1", title |-> "T1",
     startDate |-> MinLeadDays * DayMs, seats |-> n] : n \in SeatCounts }
  \cup
  { [id |-> "w2", organizerId |-> "o2", title |-> "T2",
     startDate |-> MinLeadDays * DayMs + 1, seats |-> 1] }

(***************************************************************************)
(* Errors and the result value.                                            *)
(***************************************************************************)
UserIsAlreadyRegisteredException ==
  [name |-> "UserIsAlreadyRegisteredException", message |-> "User is already registered"]
EmailNotFoundException ==
  [name |-> "EmailNotFoundException", message |-> "Email not found"]
WebinarNotFoundError ==
  [name |-> "Error", message |-> "Webinar not found."]
WebinarDatesTooSoonException ==
  [name |-> "WebinarDatesTooSoonException", message |-> "TooSoon"]
WebinarTooManySeatsException ==
  [name |-> "WebinarTooManySeatsException", message |-> "CapacityTooHigh"]
WebinarNotEnoughSeatsException ==
  [name |-> "WebinarNotEnoughSeatsException", message |-> "CapacityTooLow"]
MailerError ==
  [name |-> "Error", message |-> "send failed"]
SuccessResponse ==
  [success |-> TRUE, message |-> "User registered successfully"]

\* how a call ends: a returned value or a thrown error
Returned(v) == [kind |-> "return", value |-> v]
RaiseAsFailureValue(e) == [kind |-> "return", value |-> [success |-> FALSE, message |-> e.message]]
Raise(e) == [kind |-> "throw", value |-> e]
Pending == [kind |-> "pending", value |-> [success |-> FALSE, message |-> ""]]

(***************************************************************************)
(* Webinar entity predicates.                                              *)
(***************************************************************************)
isTooSoon(webinar, at) == webinar.startDate - at < MinLeadDays * DayMs
hasTooManySeats(webinar) == webinar.seats > MaxSeats
hasNotEnoughSeats(webinar) == webinar.seats < MinSeats

(***************************************************************************)
(* Repositories and mailer.                                                *)
(***************************************************************************)
RECURSIVE Filter(_, _)
Filter(s, webinarId) ==
  IF s = <<>> THEN <<>>
  ELSE IF Head(s).webinarId = webinarId
       THEN <<Head(s)>> \o Filter(Tail(s), webinarId)
       ELSE Filter(Tail(s), webinarId)

findByWebinarIdUnscoped(store, webinarId) == store
findByWebinarIdNothing(store, webinarId) == <<>>
findByWebinarId(store, webinarId) == Filter(store, webinarId)

saveDropped(store, participation) == store
saveIfAbsent(store, participation) ==
  IF \E i \in 1..Len(store) : store[i] = participation
  THEN store ELSE Append(store, participation)
saveReplacing(store, participation) == <<participation>>
save(store, participation) == Append(store, participation)

\* Array.prototype.find: the first element with the id, or nothing
First(s, id) ==
  IF \E i \in 1..Len(s) : s[i].id = id
  THEN Some(s[CHOOSE i \in 1..Len(s) :
                 /\ s[i].id = id
                 /\ \A j \in 1..(i - 1) : s[j].id # id])
  ELSE None

WebinarFindByIdFallback(database, webinarId) ==
  IF First(database, webinarId) = None /\ database # <<>>
  THEN Some(database[1])
  ELSE First(database, webinarId)
WebinarFindById(database, webinarId) == First(database, webinarId)

UserFindById(repo, userId) == First(repo, userId)

\* String(x) of an optional address inside a template literal
Interpolate(email) == IF email = None THEN "undefined" ELSE email[1]

\* truthiness of organizer?.props.email
hasEmailIgnoringEmpty(organizer) == organizer # None /\ organizer[1].email # None
hasEmail(organizer) ==
  /\ organizer # None
  /\ organizer[1].email # None
  /\ organizer[1].email[1] # ""

OrganizerMailWrongRecipient(webinar, user, organizer) ==
  [to |-> Interpolate(user.email),
   subject |-> "New participant",
   body |-> "New participant for webinar " \o webinar.title \o ": " \o Interpolate(user.email)]
OrganizerMail(webinar, user, organizer) ==
  [to |-> organizer.email[1],
   subject |-> "New participant",
   body |-> "New participant for webinar " \o webinar.title \o ": " \o Interpolate(user.email)]

(***************************************************************************)
(* The validations of execute, in the order of the code.                   *)
(***************************************************************************)
isAlreadyRegisteredNever(participation, user) == FALSE
isAlreadyRegistered(participation, user) ==
  \E i \in 1..Len(participation) : participation[i].userId = user.id

ValidationErrorCapacityFirst(participation, webinar, user, at) ==
  IF hasTooManySeats(webinar) THEN Some(WebinarTooManySeatsException)
  ELSE IF hasNotEnoughSeats(webinar) THEN Some(WebinarNotEnoughSeatsException)
  ELSE IF isTooSoon(webinar, at) THEN Some(WebinarDatesTooSoonException)
  ELSE IF isAlreadyRegistered(participation, user) THEN Some(UserIsAlreadyRegisteredException)
  ELSE None
ValidationErrorNoLowerBound(participation, webinar, user, at) ==
  IF isAlreadyRegistered(participation, user) THEN Some(UserIsAlreadyRegisteredException)
  ELSE IF isTooSoon(webinar, at) THEN Some(WebinarDatesTooSoonException)
  ELSE IF hasTooManySeats(webinar) THEN Some(WebinarTooManySeatsException)
  ELSE None
ValidationErrorLeadInclusive(participation, webinar, user, at) ==
  IF isAlreadyRegistered(participation, user) THEN Some(UserIsAlreadyRegisteredException)
  ELSE IF webinar.startDate - at <= MinLeadDays * DayMs THEN Some(WebinarDatesTooSoonException)
  ELSE IF hasTooManySeats(webinar) THEN Some(WebinarTooManySeatsException)
  ELSE IF hasNotEnoughSeats(webinar) THEN Some(WebinarNotEnoughSeatsException)
  ELSE None
ValidationErrorCountsSeats(participation, webinar, user, at) ==
  IF isAlreadyRegistered(participation, user) THEN Some(UserIsAlreadyRegisteredException)
  ELSE IF isTooSoon(webinar, at) THEN Some(WebinarDatesTooSoonException)
  ELSE IF hasTooManySeats(webinar) THEN Some(WebinarTooManySeatsException)
  ELSE IF hasNotEnoughSeats(webinar) \/ Len(participation) >= webinar.seats
       THEN Some(WebinarNotEnoughSeatsException)
  ELSE None
ValidationError(participation, webinar, user, at) ==
  IF isAlreadyRegistered(participation, user) THEN Some(UserIsAlreadyRegisteredException)
  ELSE IF isTooSoon(webinar, at) THEN Some(WebinarDatesTooSoonException)
  ELSE IF hasTooManySeats(webinar) THEN Some(WebinarTooManySeatsException)
  ELSE IF hasNotEnoughSeats(webinar) THEN Some(WebinarNotEnoughSeatsException)
  ELSE None

NewParticipation(user, webinarId) == [userId |-> user.id, webinarId |-> webinarId]

(***************************************************************************)
(* State.                                                                  *)
(***************************************************************************)
VARIABLES
  participations,   \* FakeParticipationRepository.participations
  users,            \* FakeUserRepository.users
  webinars,         \* InMemoryWebinarRepository.database
  emails,           \* FakeMailer.emails
  now,              \* the clock read by new Date()
  call,             \* per slot: position and locals of one execute call
  started,          \* execute calls started so far
  failedAfterSave   \* history: pairs whose call threw after its save

vars == <<participations, users, webinars, emails, now, call, started, failedAfterSave>>

NoUser == [id |-> "", email |-> None]

IdleCall ==
  [pc |-> "idle",
   webinarId |-> "", user |-> NoUser,
   participation |-> <<>>, webinar |-> None, organizer |-> None,
   outcome |-> Pending,
   \* history of the call, for stating properties
   storeAtStart |-> <<>>, emailsAtStart |-> <<>>, failedAtStart |-> {}, checkedAt |-> 0,
   saves |-> 0, lookups |-> 0, sends |-> 0, sendFailed |-> FALSE]

Init ==
  /\ participations = <<>>
  /\ users = <<>>
  /\ webinars = <<>>
  /\ emails = <<>>
  /\ now = 0
  /\ call = [c \in Calls |-> IdleCall]
  /\ started = 0
  /\ failedAfterSave = {}

NoCallInFlight == \A c \in Calls : call[c].pc = "idle"

(***************************************************************************)
(* Environment: repositories filled from outside, and the clock.           *)
(***************************************************************************)
EnvSteps == Len(webinars) + Len(users) + now

CreateWebinar(w) ==
  /\ EnvSteps < MaxEnvSteps
  /\ webinars' = Append(webinars, w)
  /\ UNCHANGED <<participations, users, emails, now, call, started, failedAfterSave>>

AddUser(u) ==
  /\ EnvSteps < MaxEnvSteps
  /\ users' = Append(users, u)
  /\ UNCHANGED <<participations, webinars, emails, now, call, started, failedAfterSave>>

Tick ==
  /\ EnvSteps < MaxEnvSteps
  /\ now' = now + 1
  /\ UNCHANGED <<participations, users, webinars, emails, call, started, failedAfterSave>>

(***************************************************************************)
(* BookSeat.execute, one action per stretch between await points.          *)
(***************************************************************************)
\* execute is called: findByWebinarId runs and its result is awaited
Begin(c, webinarId, user) ==
  /\ call[c].pc = "idle"
  /\ started < MaxBookings
  /\ started' = started + 1
  /\ call' = [call EXCEPT ![c] =
       [IdleCall EXCEPT
          !.pc = "awaitParticipation",
          !.webinarId = webinarId, !.user = user,
          !.participation = findByWebinarId(participations, webinarId),
          !.storeAtStart = participations, !.emailsAtStart = emails,
          !.failedAtStart = failedAfterSave]]
  /\ UNCHANGED <<participations, users, webinars, emails, now, failedAfterSave>>

\* a call of the sequential workflow: no other call is in flight
Execute(webinarId, user) ==
  /\ NoCallInFlight
  /\ Begin(1, webinarId, user)

\* webinarRepository.findById: throws when the id is unknown
FindWebinar(c) ==
  /\ call[c].pc = "awaitParticipation"
  /\ LET found == WebinarFindById(webinars, call[c].webinarId) IN
       IF found = None
       THEN call' = [call EXCEPT ![c].pc = "done",
                                 ![c].outcome = Raise(WebinarNotFoundError)]
       ELSE call' = [call EXCEPT ![c].pc = "awaitWebinar",
                                 ![c].webinar = found]
  /\ UNCHANGED <<participations, users, webinars, emails, now, started, failedAfterSave>>

\* (a variant that saves before it checks)
ValidateAndSaveSaveFirst(c) ==
  /\ call[c].pc = "awaitWebinar"
  /\ participations' =
       save(participations, NewParticipation(call[c].user, call[c].webinarId))
  /\ LET err == ValidationError(call[c].participation, call[c].webinar[1],
                                call[c].user, now) IN
       IF err # None
       THEN call' = [call EXCEPT ![c].pc = "done",
                                 ![c].outcome = Raise(err[1]),
                                 ![c].checkedAt = now]
       ELSE call' = [call EXCEPT ![c].pc = "awaitSave",
                                 ![c].checkedAt = now,
                                 ![c].saves = @ + 1]
  /\ UNCHANGED <<users, webinars, emails, now, started, failedAfterSave>>

\* the four checks, then new Participation and participationRepository.save
ValidateAndSave(c) ==
  /\ call[c].pc = "awaitWebinar"
  /\ LET err == ValidationError(call[c].participation, call[c].webinar[1],
                                call[c].user, now) IN
       IF err # None
       THEN /\ call' = [call EXCEPT ![c].pc = "done",
                                    ![c].outcome = Raise(err[1]),
                                    ![c].checkedAt = now]
            /\ UNCHANGED participations
       ELSE /\ participations' =
                 save(participations, NewParticipation(call[c].user, call[c].webinarId))
            /\ call' = [call EXCEPT ![c].pc = "awaitSave",
                                    ![c].checkedAt = now,
                                    ![c].saves = @ + 1]
  /\ UNCHANGED <<users, webinars, emails, now, started, failedAfterSave>>

\* sendEmailToOrganizer: userRepository.findById
FindOrganizer(c) ==
  /\ call[c].pc = "awaitSave"
  /\ call' = [call EXCEPT ![c].pc = "awaitOrganizer",
                          ![c].organizer = UserFindById(users, call[c].webinar[1].organizerId),
                          ![c].lookups = @ + 1]
  /\ UNCHANGED <<participations, users, webinars, emails, now, started, failedAfterSave>>

\* sendEmailToOrganizer: no usable address
ThrowEmailNotFound(c) ==
  /\ call[c].pc = "awaitOrganizer"
  /\ ~hasEmail(call[c].organizer)
  /\ call' = [call EXCEPT ![c].pc = "done",
                          ![c].outcome = Raise(EmailNotFoundException)]
  /\ failedAfterSave' = failedAfterSave \cup {NewParticipation(call[c].user, call[c].webinarId)}
  /\ UNCHANGED <<participations, users, webinars, emails, now, started>>

\* sendEmailToOrganizer: mailer.send accepts the message
SendEmail(c) ==
  /\ call[c].pc = "awaitOrganizer"
  /\ hasEmail(call[c].organizer)
  /\ emails' = Append(emails, OrganizerMail(call[c].webinar[1], call[c].user,
                                            call[c].organizer[1]))
  /\ call' = [call EXCEPT ![c].pc = "awaitSend", ![c].sends = @ + 1]
  /\ UNCHANGED <<participations, users, webinars, now, started, failedAfterSave>>

\* sendEmailToOrganizer: mailer.send fails
SendEmailFails(c) ==
  /\ call[c].pc = "awaitOrganizer"
  /\ hasEmail(call[c].organizer)
  /\ call' = [call EXCEPT ![c].pc = "done",
                          ![c].sendFailed = TRUE,
                          ![c].outcome = Raise(MailerError)]
  /\ failedAfterSave' = failedAfterSave \cup {NewParticipation(call[c].user, call[c].webinarId)}
  /\ UNCHANGED <<participations, users, webinars, emails, now, started>>

\* return {success: true, message: 'User registered successfully'}
ReturnSuccess(c) ==
  /\ call[c].pc = "awaitSend"
  /\ call' = [call EXCEPT ![c].pc = "done",
                          ![c].outcome = Returned(SuccessResponse)]
  /\ UNCHANGED <<participations, users, webinars, emails, now, started, failedAfterSave>>

\* the caller has taken the outcome; the slot is free again
Settle(c) ==
  /\ call[c].pc = "done"
  /\ call' = [call EXCEPT ![c] = IdleCall]
  /\ UNCHANGED <<participations, users, webinars, emails, now, started, failedAfterSave>>

Next ==
  \/ \E w \in WebinarPool : CreateWebinar(w)
  \/ \E u \in Organizers : AddUser(u)
  \/ Tick
  \/ \E id \in WebinarIds, u \in Requesters : Execute(id, u)
  \/ \E c \in Calls : FindWebinar(c)
  \/ \E c \in Calls : ValidateAndSave(c)
  \/ \E c \in Calls : FindOrganizer(c)
  \/ \E c \in Calls : ThrowEmailNotFound(c)
  \/ \E c \in Calls : SendEmail(c)
  \/ \E c \in Calls : SendEmailFails(c)
  \/ \E c \in Calls : ReturnSuccess(c)
  \/ \E c \in Calls : Settle(c)

Spec == Init /\ [][Next]_vars

(***************************************************************************)
(* Calls that overlap in pairs: a call may start while one other call     *)
(* waits at an await.                                                      *)
(***************************************************************************)
InFlight(c) == call[c].pc \notin {"idle", "done"}

\* the overlapping calls run against bookable webinars and organizers with
\* an address (an organizer that was never added is still not found)
BookableWebinars == {w \in WebinarPool : w.seats = 1}
ContactableOrganizers == {u \in Organizers : u.email \notin {None, Some("")}}

\* a call of the overlapping workflow takes the first free slot, once the
\* outcomes of the finished calls have been taken
ExecuteConcurrently(c, webinarId, user) ==
  /\ \A d, e \in Calls : InFlight(d) /\ InFlight(e) => d = e
  /\ \A d \in Calls : call[d].pc # "done"
  /\ \A d \in 1..(c - 1) : call[d].pc # "idle"
  /\ Begin(c, webinarId, user)

NextConcurrent ==
  \/ \E w \in BookableWebinars : CreateWebinar(w)
  \/ \E u \in ContactableOrganizers : AddUser(u)
  \/ Tick
  \/ \E c \in Calls, id \in WebinarIds, u \in Requesters : ExecuteConcurrently(c, id, u)
  \/ \E c \in Calls : FindWebinar(c)
  \/ \E c \in Calls : ValidateAndSave(c)
  \/ \E c \in Calls : FindOrganizer(c)
  \/ \E c \in Calls : ThrowEmailNotFound(c)
  \/ \E c \in Calls : SendEmail(c)
  \/ \E c \in Calls : SendEmailFails(c)
  \/ \E c \in Calls : ReturnSuccess(c)
  \/ \E c \in Calls : Settle(c)

SpecConcurrent == Init /\ [][NextConcurrent]_vars

TypeOK ==
  /\ now \in 0..MaxEnvSteps
  /\ started \in 0..MaxBookings
  /\ EnvSteps <= MaxEnvSteps
  /\ \A c \in Calls : call[c].pc \in
       {"idle", "awaitParticipation", "awaitWebinar", "awaitSave",
        "awaitOrganizer", "awaitSend", "done"}

(***************************************************************************)
(* Vocabulary of the properties.                                           *)
(***************************************************************************)
Done(c) == call[c].pc = "done"
RequestedPair(c) == [userId |-> call[c].user.id, webinarId |-> call[c].webinarId]
Count(s, x) == Cardinality({i \in 1..Len(s) : s[i] = x})
\* what the call saw and when
Found(c) == call[c].webinar # None
RegisteredAtStart(c) == Count(call[c].storeAtStart, RequestedPair(c)) > 0
LeadTime(c) == call[c].webinar[1].startDate - call[c].checkedAt
SeatsInRange(c) == call[c].webinar[1].seats >= 1 /\ call[c].webinar[1].seats <= 1000
Valid(c) == Found(c) /\ ~RegisteredAtStart(c) /\ LeadTime(c) >= 3 * DayMs /\ SeatsInRange(c)
Contactable(c) ==
  /\ call[c].organizer # None
  /\ call[c].organizer[1].email # None
  /\ call[c].organizer[1].email # Some("")
ExpectedMail(c) ==
  [to |-> call[c].organizer[1].email[1],
   subject |-> "New participant",
   body |-> "New participant for webinar " \o call[c].webinar[1].title \o ": "
            \o Interpolate(call[c].user.email)]
Succeeded(c) == call[c].outcome = [kind |-> "return", value |-> SuccessResponse]
Threw(c, e) == call[c].outcome = [kind |-> "throw", value |-> e]
RegisteredOnceWithMail(c) ==
  /\ Succeeded(c)
  /\ Count(participations, RequestedPair(c)) = 1
  /\ participations = Append(call[c].storeAtStart, RequestedPair(c))
  /\ call[c].sends = 1
  /\ emails = Append(call[c].emailsAtStart, ExpectedMail(c))

C2_RejectionIdempotent ==
  \A c \in Calls :
    Done(c) /\ RegisteredAtStart(c)
      => /\ Threw(c, UserIsAlreadyRegisteredException)
         /\ participations = call[c].storeAtStart
         /\ Count(participations, RequestedPair(c)) = 1

C2_Witness ==
  \E c \in Calls :
    /\ Done(c) /\ RegisteredAtStart(c)
    /\ Threw(c, UserIsAlreadyRegisteredException)

(***************************************************************************)
(* C3: with calls made one after the other, the store never holds two      *)
(* registrations with the same user id and webinar id.                     *)
(***************************************************************************)
C3_AtMostOnePerPair ==
  \A i, j \in 1..Len(participations) :
    participations[i] = participations[j] => i = j

C3_Witness ==
  /\ Len(participations) = 1
  /\ started = 2
  /\ \E c \in Calls : Done(c) /\ RequestedPair(c) = participations[1]
                              /\ RegisteredAtStart(c)

(***************************************************************************)
(* C4: a valid call whose organizer lookup yields no user, or a user with  *)
(* an absent or empty address, fails with EmailNotFoundException, sends    *)
(* nothing, and the registration it wrote stays in the store.              *)
(***************************************************************************)
C4_OrganizerContactMissing ==
  \A c \in Calls :
    Done(c) /\ Valid(c)
      => /\ call[c].lookups = 1
         /\ ~Contactable(c)
              => /\ Threw(c, EmailNotFoundException)
                 /\ call[c].sends = 0
                 /\ emails = call[c].emailsAtStart
                 /\ participations = Append(call[c].storeAtStart, RequestedPair(c))

C4_Witness ==
  \E c \in Calls :
    /\ Done(c) /\ Valid(c) /\ call[c].lookups = 1
    /\ call[c].organizer # None /\ call[c].organizer[1].email = Some("")
    /\ Threw(c, EmailNotFoundException)
    /\ Count(participations, RequestedPair(c)) = 1

C6_WebinarNotFound ==
  \A c \in Calls :
    Done(c) /\ (\A i \in 1..Len(webinars) : webinars[i].id # call[c].webinarId)
      => /\ Threw(c, [name |-> "Error", message |-> "Webinar not found."])
         /\ call[c].saves = 0 /\ call[c].lookups = 0 /\ call[c].sends = 0
         /\ participations = call[c].storeAtStart
         /\ emails = call[c].emailsAtStart

C6_Witness ==
  \E c \in Calls :
    /\ Done(c) /\ webinars # <<>> /\ users # <<>>
    /\ \A i \in 1..Len(webinars) : webinars[i].id # call[c].webinarId
    /\ Threw(c, WebinarNotFoundError)

(***************************************************************************)
(* C7: when the mailer's send fails, the call ends with that error, not    *)
(* with the success result, and the registration it wrote is still in the  *)
(* store.                                                                  *)
(***************************************************************************)
C7_SendFailureKeepsRegistration ==
  \A c \in Calls :
    Done(c) /\ call[c].sendFailed
      => /\ call[c].outcome.kind = "throw"
         /\ call[c].outcome.value = MailerError
         /\ ~Succeeded(c)
         /\ call[c].saves = 1
         /\ participations = Append(call[c].storeAtStart, RequestedPair(c))
         /\ emails = call[c].emailsAtStart

C7_Witness ==
  \E c \in Calls :
    /\ Done(c) /\ call[c].sendFailed /\ Valid(c) /\ Contactable(c)
    /\ Count(participations, RequestedPair(c)) = 1

C9_LeadTimeBoundary ==
  \A c \in Calls :
    Done(c) /\ Found(c) /\ ~RegisteredAtStart(c)
      => /\ Threw(c, WebinarDatesTooSoonException) <=> LeadTime(c) < 3 * DayMs
         /\ LeadTime(c) = 3 * DayMs =>
               \/ Threw(c, WebinarTooManySeatsException)
               \/ Threw(c, WebinarNotEnoughSeatsException)
               \/ call[c].saves = 1

C9_Witness ==
  \E c \in Calls :
    /\ Done(c) /\ Found(c) /\ ~RegisteredAtStart(c)
    /\ LeadTime(c) = 3 * DayMs /\ call[c].checkedAt > 0
    /\ call[c].saves = 1

(***************************************************************************)
(* C10: a finished call has either returned the success result or thrown   *)
(* an error; it never returns a value with success = false, and the error  *)
(* is the one raised by the failing step.                                  *)
(***************************************************************************)
C10_SuccessOrError ==
  \A c \in Calls :
    Done(c)
      => /\ call[c].outcome.kind \in {"return", "throw"}
         /\ call[c].outcome.kind = "return" =>
               /\ call[c].outcome.value = SuccessResponse
               /\ call[c].sends = 1
         /\ call[c].outcome.kind = "throw" =>
               call[c].outcome.value =
                 IF ~Found(c) THEN WebinarNotFoundError
                 ELSE IF call[c].saves = 0
                      THEN ValidationError(call[c].participation, call[c].webinar[1],
                                           call[c].user, call[c].checkedAt)[1]
                 ELSE IF call[c].sendFailed THEN MailerError
                 ELSE EmailNotFoundException

C10_Witness ==
  \E c \in Calls :
    /\ Done(c) /\ call[c].saves = 1 /\ call[c].lookups = 1
    /\ call[c].outcome.kind = "throw"
    /\ started = 2

(***************************************************************************)
(* C11: two overlapping calls for the same user and webinar that both read *)
(* the list before either saved both pass the duplicate check and both     *)
(* save: the store then holds two records for the pair.                    *)
(***************************************************************************)
C11_RaceDuplicates ==
  \A c, d \in Calls :
    /\ c # d
    /\ RequestedPair(c) = RequestedPair(d)
    /\ call[c].pc \in {"awaitSave", "awaitOrganizer", "awaitSend", "done"}
    /\ call[d].pc \in {"awaitSave", "awaitOrganizer", "awaitSend", "done"}
    /\ call[c].webinar # None /\ call[d].webinar # None
    /\ ~(\E i \in 1..Len(call[c].participation) :
           call[c].participation[i].userId = call[c].user.id)
    /\ ~(\E i \in 1..Len(call[d].participation) :
           call[d].participation[i].userId = call[d].user.id)
    /\ call[c].outcome.value \notin
         {UserIsAlreadyRegisteredException, WebinarDatesTooSoonException,
          WebinarTooManySeatsException, WebinarNotEnoughSeatsException}
    /\ call[d].outcome.value \notin
         {UserIsAlreadyRegisteredException, WebinarDatesTooSoonException,
          WebinarTooManySeatsException, WebinarNotEnoughSeatsException}
    => /\ call[c].saves = 1 /\ call[d].saves = 1
       /\ Count(participations, RequestedPair(c)) >= 2

C11_Witness ==
  \E c, d \in Calls :
    /\ c # d
    /\ RequestedPair(c) = RequestedPair(d)
    /\ call[c].participation = <<>> /\ call[d].participation = <<>>
    /\ call[c].saves = 1 /\ call[d].saves = 1
    /\ Count(participations, RequestedPair(c)) = 2

C13_AsStated ==
  \A c \in Calls : Done(c) /\ call[c].saves = 1 => Succeeded(c)

(***************************************************************************)
(* C13 (amended): every step leaves the store as it is or appends one      *)
(* registration, the pair of a call that has just passed all its checks    *)
(* (whether or not the call later returns the success result); a call      *)
(* writes at most once; no stored registration is changed or removed.      *)
(***************************************************************************)
C13_Lifecycle ==
  [][ /\ \A c \in Calls : call'[c].saves <= 1
      /\ \/ participations' = participations
         \/ \E c \in Calls :
              /\ call[c].pc = "awaitWebinar" /\ call'[c].pc = "awaitSave"
              /\ call[c].saves = 0 /\ call'[c].saves = 1
              /\ ~(\E i \in 1..Len(call[c].participation) :
                     call[c].participation[i].userId = call[c].user.id)
              /\ call[c].webinar[1].startDate - now >= 3 * DayMs
              /\ call[c].webinar[1].seats >= 1 /\ call[c].webinar[1].seats <= 1000
              /\ participations' = Append(participations, RequestedPair(c))
    ]_vars

C13_Witness ==
  \E c \in Calls :
    /\ Done(c) /\ Succeeded(c)
    /\ Len(participations) = 2
    /\ participations[1] \in failedAfterSave
    /\ participations[2] = RequestedPair(c)

(***************************************************************************)
(* C14: within a call the save precedes the organizer lookup and the       *)
(* lookup precedes the send; every notification in the mailer has a        *)
(* registration of its registrant and webinar in the store, and there are  *)
(* never more notifications than registrations.                            *)
(***************************************************************************)
C14_PersistBeforeNotify ==
  /\ Len(emails) <= Len(participations)
  /\ \A c \in Calls :
       /\ call[c].lookups > 0 =>
            /\ call[c].saves = 1
            /\ Count(participations, RequestedPair(c)) >= 1
       /\ call[c].sends > 0 => call[c].lookups = 1
  /\ \A k \in 1..Len(emails) :
       \E i \in 1..Len(participations), j \in 1..Len(webinars), u \in Requesters :
         /\ participations[i] = [userId |-> u.id, webinarId |-> webinars[j].id]
         /\ emails[k].body = "New participant for webinar " \o webinars[j].title
                              \o ": " \o Interpolate(u.email)

C14_Witness ==
  /\ Len(emails) = 1
  /\ Len(participations) = 2
  /\ \E c \in Calls : call[c].pc = "awaitSend"

(***************************************************************************)
(* C15: a call that fails one of the four checks leaves the store as it    *)
(* was, looks up no organizer and sends nothing.                           *)
(***************************************************************************)
C15_RejectionHasNoEffect ==
  \A c \in Calls :
    /\ Done(c)
    /\ \/ Threw(c, UserIsAlreadyRegisteredException)
       \/ Threw(c, WebinarDatesTooSoonException)
       \/ Threw(c, WebinarTooManySeatsException)
       \/ Threw(c, WebinarNotEnoughSeatsException)
    => /\ participations = call[c].storeAtStart
       /\ emails = call[c].emailsAtStart
       /\ call[c].saves = 0 /\ call[c].lookups = 0 /\ call[c].sends = 0
       /\ call[c].organizer = None

C15_Witness ==
  \E c \in Calls :
    /\ Done(c) /\ Threw(c, WebinarDatesTooSoonException)
    /\ call[c].storeAtStart # <<>>
    /\ participations = call[c].storeAtStart

(***************************************************************************)
(* C16: once a call for a pair has failed after its save (no organizer     *)
(* address, or the mailer failed), the pair stays in the store, every      *)
(* later call for it fails with UserIsAlreadyRegisteredException without   *)
(* sending, and no notification for that pair is ever in the mailer, even  *)
(* when the organizer has an address by then.                              *)
(***************************************************************************)
C16_FailedPairStaysBlocked ==
  /\ \A p \in failedAfterSave :
       /\ Count(participations, p) = 1
       /\ \A k \in 1..Len(emails), j \in 1..Len(webinars), u \in Requesters :
            u.id = p.userId /\ webinars[j].id = p.webinarId
              => emails[k].body # "New participant for webinar " \o webinars[j].title
                                   \o ": " \o Interpolate(u.email)
  /\ \A c \in Calls :
       Done(c) /\ RequestedPair(c) \in call[c].failedAtStart
         => /\ Threw(c, UserIsAlreadyRegisteredException)
            /\ ~Succeeded(c)
            /\ call[c].sends = 0
            /\ emails = call[c].emailsAtStart

C16_Witness ==
  \E c \in Calls :
    /\ Done(c) /\ RequestedPair(c) \in call[c].failedAtStart
    /\ Threw(c, UserIsAlreadyRegisteredException)
    /\ \E i \in 1..Len(users) :
         /\ users[i].id = call[c].webinar[1].organizerId
         /\ users[i].email \notin {None, Some("")}
    /\ emails = <<>>

(***************************************************************************)
(* C17: the duplicate check looks only at the registrations of the         *)
(* requested webinar: a call fails with UserIsAlreadyRegisteredException   *)
(* exactly when the user is registered for that webinar, whatever the      *)
(* user's other registrations, and it leaves the registrations of every    *)
(* other webinar as they were.                                             *)
(***************************************************************************)
C17_DuplicateCheckScoped ==
  \A c \in Calls :
    Done(c) /\ Found(c)
      => /\ Threw(c, UserIsAlreadyRegisteredException) <=> RegisteredAtStart(c)
         /\ \A i \in 1..Len(call[c].participation) :
              call[c].participation[i].webinarId = call[c].webinarId
         /\ \A id \in WebinarIds \ {call[c].webinarId} :
              Filter(participations, id) = Filter(call[c].storeAtStart, id)

C17_Witness ==
  \E c \in Calls :
    /\ Done(c) /\ Valid(c) /\ call[c].saves = 1
    /\ \E i \in 1..Len(call[c].storeAtStart) :
         /\ call[c].storeAtStart[i].userId = call[c].user.id
         /\ call[c].storeAtStart[i].webinarId # call[c].webinarId
    /\ Len(participations) = 2
====
